---- MODULE Spec2Model ----
(***************************************************************************)
(* A model of cryptML's factorization engines (factorization_methods.py),  *)
(* RSA key generators (modern_ciphers.py), polynomial operations           *)
(* (polynomial_operations.py) and classical ciphers (ciphers.py).          *)
(*                                                                         *)
(* One call is in progress at a time.  The search loops of the engines are *)
(* run one iteration per step, so that an interrupt can arrive between two *)
(* iterations; the key generators are one step per call, their random      *)
(* draws being the step's nondeterminism.                                  *)
(*                                                                         *)
(* The helpers imported from whole_number_operations,                      *)
(* rational_number_operations and primality_tests are not part of the      *)
(* sources at hand; they are written here after their description in the   *)
(* specification (sections 4.1, 4.2 and 6).                                *)
(***************************************************************************)
EXTENDS Integers, Sequences, FiniteSets, TLC

VARIABLES pc, fn, n, e, a, b_squared, i, d, x, y, g, convergents, result,
          interrupted, gen,
          polynomial_coefficients, input_value, horner_result,
          dividend, divisor, quotient, remainder,
          key, key_argument, plaintext, ciphertext, decrypted,
          rows, row_index, direction, position, outcome

\* The locals and outcomes of the factorization engines and key generators.
engineVars == <<n, e, a, b_squared, i, d, x, y, g, convergents, result,
                interrupted, gen>>
\* The locals of the polynomial operations.
polyVars == <<polynomial_coefficients, input_value, horner_result,
              dividend, divisor, quotient, remainder>>
\* The cipher objects' keys and the locals of their methods.
cipherVars == <<key, key_argument, plaintext, ciphertext, decrypted,
                rows, row_index, direction>>
\* What the calls of polynomial_operations.py and ciphers.py work on.
libraryVars == <<polyVars, cipherVars, position, outcome>>

vars == <<pc, fn, engineVars, libraryVars>>

(***************************************************************************)
(* Bounds of the model.                                                    *)
(***************************************************************************)
\* Fermat's method and Pollard's p-1 are called with |n| <= MaxN.
MaxN == 66
\* An input of Fermat's method beyond MaxN: the specification's example.
FermatExample == 8051
\* Pollard's rho is called with 2 <= N <= MaxRhoN.
MaxRhoN == 486
\* The continued-fraction attack is called with 0 <= e <= MaxCfE, 1 <= N <= MaxCfN.
MaxCfE == 7
MaxCfN == 9
\* The key generators are called with 0 <= number_of_bits <= MaxBits, and
\* generate_rsa_public_key with 0 <= public_exponent <= MaxExponent or the
\* default exponent.
MaxBits == 4
MaxExponent == 5
\* The bit length of the keys handed to the continued-fraction attack: the
\* least for which a weak decryption exponent exists.
WienerBits == 9
\* The primality oracle draws primes up to PrimeCap.
PrimeCap == 2 ^ (IF WienerBits > MaxBits THEN WienerBits ELSE MaxBits)

(***************************************************************************)
(* Results of a call: a returned value (a pair or None) or a raised error. *)
(***************************************************************************)
Pair(u, v) == [kind |-> "pair", val |-> <<u, v>>]
None == [kind |-> "None", val |-> <<0, 0>>]
Raised(err) == [kind |-> err, val |-> <<0, 0>>]
NoResult == [kind |-> "pending", val |-> <<0, 0>>]

(***************************************************************************)
(* whole_number_operations, after section 4.1 of the specification.        *)
(***************************************************************************)
absolute_value(v) == IF v < 0 THEN -v ELSE v

RECURSIVE SqrtBetween(_, _, _)
\* The largest k in lo..hi with k*k <= v, given lo*lo <= v.
SqrtBetween(v, lo, hi) ==
    IF lo >= hi THEN lo
    ELSE LET mid == (lo + hi + 1) \div 2
         IN  IF mid * mid <= v THEN SqrtBetween(v, mid, hi)
             ELSE SqrtBetween(v, lo, mid - 1)

\* integer_sqrt(v): the largest k with k*k <= v (v >= 0).
integer_sqrt(v) == SqrtBetween(v, 0, IF v < 46340 THEN v ELSE 46340)

is_square(v) == v >= 0 /\ integer_sqrt(v) * integer_sqrt(v) = v

RECURSIVE greatest_common_divisor(_, _)
\* Euclid's algorithm; the remainder takes the sign of the divisor, as Python's %.
greatest_common_divisor(u, v) ==
    IF v = 0 THEN u
    ELSE IF v > 0 THEN greatest_common_divisor(v, u % v)
    ELSE greatest_common_divisor(v, -((-u) % (-v)))

RECURSIVE MulMod(_, _, _)
\* (u * v) mod m for 0 <= u, v < m, by doubling: no intermediate value exceeds
\* 2*m, where the product u*v itself may exceed the integers at hand.
MulMod(u, v, m) ==
    IF v = 0 THEN 0
    ELSE LET half == MulMod(u, v \div 2, m)
             dbl == (half + half) % m
         IN  IF v % 2 = 1 THEN (dbl + u) % m ELSE dbl

RECURSIVE fast_powering_algorithm(_, _, _)
\* Exponentiation by squaring: base^exponent mod modulus, exponent >= 0.
fast_powering_algorithm(base, exponent, modulus) ==
    IF exponent = 0 THEN 1 % modulus
    ELSE LET half == fast_powering_algorithm(base, exponent \div 2, modulus)
             sq == MulMod(half, half, modulus)
         IN  IF exponent % 2 = 1 THEN MulMod(sq, base % modulus, modulus) ELSE sq

RECURSIVE ExtendedEuclid(_, _)
\* <<gcd, s, t>> with s*u + t*v = gcd, for u, v >= 0.
ExtendedEuclid(u, v) ==
    IF v = 0 THEN <<u, 1, 0>>
    ELSE LET r == ExtendedEuclid(v, u % v)
         IN  <<r[1], r[3], r[2] - (u \div v) * r[3]>>

\* find_modular_inverse(u, m): the inverse of u modulo m; it fails with
\* NoInverseError when gcd(u, m) # 1.
find_modular_inverse(u, m) ==
    LET r == ExtendedEuclid(u % m, m)
    IN  IF r[1] # 1 THEN [ok |-> FALSE, val |-> 0]
        ELSE [ok |-> TRUE, val |-> r[2] % m]

(***************************************************************************)
(* fermat_factorization                                                    *)
(***************************************************************************)
\* Line 42, for an int n: n is an odd number greater than 1.
FermatValidNoParity(v) == ~(v <= 1)
FermatValid(v) == ~(v <= 1 \/ v % 2 = 0)

\* Line 52: the first a tried, the ceiling of the square root of n.
FermatFirstALate(v) == integer_sqrt(v - 1) + 2
FermatFirstA(v) == integer_sqrt(v - 1) + 1

\* Line 62: the factors returned.
FermatFactors(aa, bb) == Pair(aa - integer_sqrt(bb), aa + integer_sqrt(bb))

\* No call is in progress.
Idle == pc = "idle"

\* Lines 42-53: the call up to the first test of the while loop.
FermatCall(v) ==
    /\ Idle
    /\ fn' = "fermat_factorization" /\ n' = v
    /\ i' = 0 /\ d' = 0 /\ x' = 0 /\ y' = 0 /\ g' = 0 /\ e' = 0
    /\ convergents' = <<>> /\ interrupted' = FALSE
    /\ IF ~FermatValid(v)
         THEN /\ pc' = "done" /\ result' = Raised("ValueError")
              /\ a' = 0 /\ b_squared' = 0
       ELSE IF is_square(v)
         THEN /\ pc' = "done" /\ result' = Pair(integer_sqrt(v), integer_sqrt(v))
              /\ a' = 0 /\ b_squared' = 0
       ELSE /\ pc' = "fermat_loop" /\ result' = NoResult
            /\ a' = FermatFirstA(v)
            /\ b_squared' = FermatFirstA(v) * FermatFirstA(v) - v
    /\ UNCHANGED gen
    /\ UNCHANGED libraryVars

\* Lines 54-56: one iteration of the while loop.
FermatLoop ==
    /\ pc = "fermat_loop"
    /\ ~is_square(b_squared)
    /\ a' = a + 1
    /\ b_squared' = (a + 1) * (a + 1) - n
    /\ UNCHANGED <<pc, fn, n, e, i, d, x, y, g, convergents, result, interrupted, gen>>
    /\ UNCHANGED libraryVars

\* Line 62: the loop has ended.
FermatReturn ==
    /\ pc = "fermat_loop"
    /\ is_square(b_squared)
    /\ pc' = "done"
    /\ result' = FermatFactors(a, b_squared)
    /\ UNCHANGED <<fn, n, e, a, b_squared, i, d, x, y, g, convergents, interrupted, gen>>
    /\ UNCHANGED libraryVars

(***************************************************************************)
(* pollard_p_minus_one_factorization                                       *)
(***************************************************************************)
\* Line 78.  The source sets 1000000.  For N <= MaxN the value of a no longer
\* changes once i exceeds N (i! is then a multiple of the order of 2 modulo
\* the odd part of N, and exceeds the exponent of its even part), so that a
\* loop run to MaxN + 1 ends as the source's does.
UPPER_BOUND == MaxN + 1

\* Line 83: the candidate divisor.
Pm1CandidateNoShift(aa, v) == greatest_common_divisor(aa, v)
Pm1Candidate(aa, v) == greatest_common_divisor(aa - 1, v)

\* Line 84: d is a divisor to return.
Pm1Proper(dd, v) == 1 < dd /\ dd < v

\* Lines 78-80.
Pm1Call(v) ==
    /\ Idle
    /\ fn' = "pollard_p_minus_one_factorization" /\ n' = v
    /\ pc' = "pm1_loop" /\ result' = NoResult
    /\ a' = 2 /\ i' = 2
    /\ b_squared' = 0 /\ d' = 0 /\ x' = 0 /\ y' = 0 /\ g' = 0 /\ e' = 0
    /\ convergents' = <<>> /\ interrupted' = FALSE
    /\ UNCHANGED gen
    /\ UNCHANGED libraryVars

\* Lines 81-86: one iteration of the for loop.
Pm1Loop ==
    /\ pc = "pm1_loop"
    /\ i < UPPER_BOUND
    /\ LET a1 == fast_powering_algorithm(a, i, n)
           d1 == Pm1Candidate(a1, n)
       IN  /\ a' = a1
           /\ d' = d1
           /\ IF Pm1Proper(d1, n)
                THEN /\ pc' = "done" /\ result' = Pair(d1, n \div d1) /\ i' = i
                ELSE /\ pc' = pc /\ result' = result /\ i' = i + 1
    /\ UNCHANGED <<fn, n, e, b_squared, x, y, g, convergents, interrupted, gen>>
    /\ UNCHANGED libraryVars

\* Lines 88-89: the range is exhausted.
Pm1Exhausted ==
    /\ pc = "pm1_loop"
    /\ i >= UPPER_BOUND
    /\ pc' = "done"
    /\ result' = None
    /\ UNCHANGED <<fn, n, e, a, b_squared, i, d, x, y, g, convergents, interrupted, gen>>
    /\ UNCHANGED libraryVars

\* Lines 57-59: a KeyboardInterrupt raised inside the try block is caught, a
\* message is printed and None is returned.
FermatInterrupted ==
    /\ pc = "fermat_loop"
    /\ pc' = "done"
    /\ interrupted' = TRUE
    /\ result' = None
    /\ UNCHANGED <<fn, n, e, a, b_squared, i, d, x, y, g, convergents, gen>>
    /\ UNCHANGED libraryVars

(***************************************************************************)
(* pollard_rho_factorization                                               *)
(***************************************************************************)
\* Line 95.  The source sets 1000000.  Modulo N the walk t -> t^2 + 1 enters
\* its cycle and closes it within N rounds, after which the pairs (x, y), and
\* with them the values of g, repeat: for N <= MaxRhoN a loop run to MaxRhoN
\* rounds ends as the source's does.
MAX_ITERATIONS == MaxRhoN

\* Lines 101-103: the map applied to x once and to y twice.
RhoMapNoShift(t, v) == (t * t) % v
RhoMap(t, v) == (t * t + 1) % v

\* Line 105: g is a divisor to return.
RhoProperOrN(gg, v) == gg > 1
RhoProper(gg, v) == gg > 1 /\ gg < v

\* Lines 95-99.
RhoCall(v) ==
    /\ Idle
    /\ fn' = "pollard_rho_factorization" /\ n' = v
    /\ pc' = "rho_loop" /\ result' = NoResult
    /\ x' = 1 /\ y' = 2
    /\ g' = greatest_common_divisor(absolute_value(2 - 1), v)
    /\ i' = 0
    /\ a' = 0 /\ b_squared' = 0 /\ d' = 0 /\ e' = 0
    /\ convergents' = <<>> /\ interrupted' = FALSE
    /\ UNCHANGED gen
    /\ UNCHANGED libraryVars

\* Lines 100-106: one round of the for loop.
RhoLoop ==
    /\ pc = "rho_loop"
    /\ i < MAX_ITERATIONS
    /\ LET x1 == RhoMap(x, n)
           y1 == RhoMap(RhoMap(y, n), n)
           g1 == greatest_common_divisor(absolute_value(y1 - x1), n)
       IN  /\ x' = x1 /\ y' = y1 /\ g' = g1
           /\ i' = i + 1
           /\ IF RhoProper(g1, n)
                THEN /\ pc' = "done" /\ result' = Pair(g1, n \div g1)
                ELSE /\ pc' = pc /\ result' = result
    /\ UNCHANGED <<fn, n, e, a, b_squared, d, convergents, interrupted, gen>>
    /\ UNCHANGED libraryVars

\* Line 108: the rounds are used up; the message is printed and the function
\* ends without a return statement, which returns None.
RhoExhausted ==
    /\ pc = "rho_loop"
    /\ i >= MAX_ITERATIONS
    /\ pc' = "done"
    /\ result' = None
    /\ UNCHANGED <<fn, n, e, a, b_squared, i, d, x, y, g, convergents, interrupted, gen>>
    /\ UNCHANGED libraryVars

\* Neither of Pollard's loops handles KeyboardInterrupt: raised during the
\* loop, it leaves the call as an exception.
PollardInterrupted ==
    /\ pc \in {"pm1_loop", "rho_loop"}
    /\ pc' = "done"
    /\ interrupted' = TRUE
    /\ result' = Raised("KeyboardInterrupt")
    /\ UNCHANGED <<fn, n, e, a, b_squared, i, d, x, y, g, convergents, gen>>
    /\ UNCHANGED libraryVars

(***************************************************************************)
(* rational_number_operations, after section 4.2 of the specification.     *)
(***************************************************************************)
RECURSIVE cf_expansion(_, _)
\* The continued-fraction terms of numerator/denominator, by Euclidean steps.
cf_expansion(numerator, denominator) ==
    IF denominator = 0 THEN <<>>
    ELSE <<numerator \div denominator>>
           \o cf_expansion(denominator, numerator % denominator)

RECURSIVE ConvergentsFrom(_, _, _, _, _, _)
\* h_k = a_k*h_(k-1) + h_(k-2), k_k = a_k*k_(k-1) + k_(k-2), from term j on.
ConvergentsFrom(terms, j, h1, h2, k1, k2) ==
    IF j > Len(terms) THEN <<>>
    ELSE LET h == terms[j] * h1 + h2
             k == terms[j] * k1 + k2
         IN  <<(<<h, k>>)>> \o ConvergentsFrom(terms, j + 1, h, h1, k, k1)

\* The convergents <<numerator, denominator>> of a term sequence, seeded with
\* h_(-1) = 1, h_(-2) = 0, k_(-1) = 0, k_(-2) = 1.
get_cf_convergents(terms) == ConvergentsFrom(terms, 1, 1, 0, 0, 1)

(***************************************************************************)
(* continued_fraction_factorization                                        *)
(***************************************************************************)
\* The names bound in the namespace of factorization_methods.py: those its two
\* import statements bring in and the functions it defines.  The function
\* integer_quadratic_formula, called at line 14, is not among them.
ModuleNames ==
    {"fast_powering_algorithm", "integer_sqrt", "is_square", "integer_nthrt",
     "find_modular_inverse", "greatest_common_divisor", "absolute_value",
     "get_cf_convergents", "cf_expansion",
     "continued_fraction_factorization", "fermat_factorization",
     "known_decryption_key_factorization", "pollard_p_minus_one_factorization",
     "pollard_rho_factorization"}

\* The integer quadratic formula as section 4.3 describes it: the roots of
\* qa*x^2 + qb*x + qc when the discriminant is a perfect square and both roots
\* are positive integers, else (None, None).
integer_quadratic_formula(qa, qb, qc) ==
    LET disc == qb * qb - 4 * qa * qc
        s == integer_sqrt(disc)
        none == [found |-> FALSE, p |-> 0, q |-> 0]
    IN  IF disc < 0 \/ ~is_square(disc) THEN none
        ELSE IF (-qb - s) % (2 * qa) # 0 \/ (-qb + s) % (2 * qa) # 0 THEN none
        ELSE IF (-qb - s) \div (2 * qa) <= 0 THEN none
        ELSE [found |-> TRUE, p |-> (-qb - s) \div (2 * qa),
                              q |-> (-qb + s) \div (2 * qa)]

\* Line 9; i is the place of the for loop in the convergents.
CfStart(ev, v) ==
    /\ fn' = "continued_fraction_factorization" /\ n' = v /\ e' = ev
    /\ pc' = "cf_loop" /\ result' = NoResult
    /\ convergents' = get_cf_convergents(cf_expansion(ev, v))
    /\ i' = 1
    /\ a' = 0 /\ b_squared' = 0 /\ d' = 0 /\ x' = 0 /\ y' = 0 /\ g' = 0
    /\ interrupted' = FALSE
    /\ UNCHANGED gen
    /\ UNCHANGED libraryVars

CfCall(ev, v) == Idle /\ CfStart(ev, v)

\* Lines 11-17: the loop body for one convergent.
CfLoop ==
    /\ pc = "cf_loop"
    /\ i <= Len(convergents)
    /\ LET num == convergents[i][1]
           denom == convergents[i][2]
       IN  IF num = 0
             THEN /\ i' = i + 1 /\ pc' = pc /\ result' = result
           ELSE IF "integer_quadratic_formula" \notin ModuleNames
             THEN /\ i' = i /\ pc' = "done" /\ result' = Raised("NameError")
           ELSE LET roots == integer_quadratic_formula(
                                 1, ((e * denom - 1) \div num) - n - 1, n)
                IN  IF roots.found /\ roots.p * roots.q = n
                      THEN /\ i' = i /\ pc' = "done"
                           /\ result' = Pair(roots.p, roots.q)
                      ELSE /\ i' = i + 1 /\ pc' = pc /\ result' = result
    /\ UNCHANGED <<fn, n, e, a, b_squared, d, x, y, g, convergents, interrupted, gen>>
    /\ UNCHANGED libraryVars

\* Line 19: the convergents are used up.
CfExhausted ==
    /\ pc = "cf_loop"
    /\ i > Len(convergents)
    /\ pc' = "done"
    /\ result' = None
    /\ UNCHANGED <<fn, n, e, a, b_squared, i, d, x, y, g, convergents, interrupted, gen>>
    /\ UNCHANGED libraryVars

(***************************************************************************)
(* primality_tests and random, after section 6 of the specification.       *)
(***************************************************************************)
IsPrime(v) == v > 1 /\ \A k \in 2 .. integer_sqrt(v) : v % k # 0

Primes == {r \in 2 .. PrimeCap : IsPrime(r)}

\* miller_rabin_get_prime(low, high) returns a prime p with low <= p < high and
\* fails when there is none: the primes it may return.
miller_rabin_get_prime(low, high) == {r \in Primes : low <= r /\ r < high}

\* randint(low, high) returns an integer of low..high, both ends included.
randint(low, high) == low .. high

(***************************************************************************)
(* generate_rsa_public_key                                                 *)
(***************************************************************************)
\* Line 27: the default public exponent.
DefaultPublicExponent == 65537

GenRaised(name, args, err) ==
    [fn |-> name, args |-> args, outcome |-> err,
     e |-> 0, N |-> 0, p |-> 0, q |-> 0, d |-> 0]

GenReturned(name, args, ev, pv, qv, dv) ==
    [fn |-> name, args |-> args, outcome |-> "returned",
     e |-> ev, N |-> pv * qv, p |-> pv, q |-> qv, d |-> dv]

RsaArgs(number_of_bits, public_exponent) ==
    [number_of_bits |-> number_of_bits, public_exponent |-> public_exponent,
     weak_primes |-> FALSE, weak_decryption_key |-> FALSE, weak_modulus |-> FALSE]

\* Lines 44-56.  The loop of lines 52-53 draws q again until it differs from p.
GenerateRsaPublicKey(number_of_bits, public_exponent) ==
    /\ Idle
    /\ LET args == RsaArgs(number_of_bits, public_exponent)
           range == miller_rabin_get_prime(2 ^ (number_of_bits - 1), 2 ^ number_of_bits)
       IN  IF number_of_bits < 2 \/ public_exponent < 1
             THEN gen' = GenRaised("generate_rsa_public_key", args, "ValueError")
             ELSE \E pv \in range : \E qv \in range \ {pv} :
                    gen' = GenReturned("generate_rsa_public_key", args,
                                       public_exponent, pv, qv, 0)
    /\ pc' = "done" /\ fn' = "generate_rsa_public_key"
    /\ UNCHANGED <<n, e, a, b_squared, i, d, x, y, g, convergents, result, interrupted>>
    /\ UNCHANGED libraryVars

(***************************************************************************)
(* generate_bad_rsa_public_key                                             *)
(***************************************************************************)
\* Line 87: the width of the band above p that q is drawn from.
BandWidth == 1000000000
\* Line 97: the standard public exponent.
StandardExponent == 65537

BadArgs(weak_primes, weak_decryption_key, weak_modulus, number_of_bits) ==
    [number_of_bits |-> number_of_bits, public_exponent |-> 0,
     weak_primes |-> weak_primes, weak_decryption_key |-> weak_decryption_key,
     weak_modulus |-> weak_modulus]

\* The locals p, q, e and d of a call; bound says that p and q are assigned,
\* err names the error raised so far, if any.
Locals(bound, pv, qv, ev, dv, err) ==
    [bound |-> bound, p |-> pv, q |-> qv, e |-> ev, d |-> dv, err |-> err]

\* Lines 85-87: the locals after the weak_primes branch.
AfterWeakPrimes(weak_primes, number_of_bits) ==
    IF weak_primes
      THEN UNION {{Locals(TRUE, pv, qv, 0, 0, "none") :
                      qv \in miller_rabin_get_prime(pv, pv + BandWidth)} :
                  pv \in miller_rabin_get_prime(2 ^ (number_of_bits - 1),
                                                2 ^ number_of_bits)}
      ELSE {Locals(FALSE, 0, 0, 0, 0, "none")}

\* Line 94: the exclusive upper end of the range d is drawn from.
DecryptionKeyCeiling(pv, qv) == integer_sqrt(integer_sqrt(pv * qv)) \div 4 - 1

\* Lines 88-97: the locals after the weak_decryption_key branch or its else.
AfterWeakDecryptionKey(weak_decryption_key, number_of_bits, loc) ==
    IF weak_decryption_key
      THEN LET range == miller_rabin_get_prime(2 ^ (number_of_bits - 1),
                                               2 ^ number_of_bits)
           IN  UNION {UNION {
                 IF miller_rabin_get_prime(2, DecryptionKeyCeiling(pv, qv)) = {}
                   THEN {Locals(TRUE, pv, qv, 0, 0, "NoPrimeInRange")}
                   ELSE {LET inv == find_modular_inverse(dv, (pv - 1) * (qv - 1))
                         IN  IF inv.ok
                               THEN Locals(TRUE, pv, qv, inv.val, dv, "none")
                               ELSE Locals(TRUE, pv, qv, 0, dv, "NoInverseError") :
                         dv \in miller_rabin_get_prime(2, DecryptionKeyCeiling(pv, qv))} :
                 qv \in range \ {pv}} : pv \in range}
      ELSE {[loc EXCEPT !.e = StandardExponent]}

\* Lines 98-100: the locals after the weak_modulus branch.
AfterWeakModulus(weak_modulus, number_of_bits, loc) ==
    IF loc.err # "none" THEN {loc}
    ELSE IF weak_modulus
      THEN {[loc EXCEPT !.bound = TRUE, !.p = pv, !.q = qv] :
               pv \in randint(2, 2 ^ number_of_bits),
               qv \in randint(2, 2 ^ number_of_bits)}
      ELSE {loc}

\* Lines 101 and 104: the outcome of the call with the locals loc.
BadOutcomeUnchecked(args, loc) ==
    IF loc.err # "none"
      THEN [GenRaised("generate_bad_rsa_public_key", args, loc.err)
              EXCEPT !.p = loc.p, !.q = loc.q, !.d = loc.d]
    ELSE GenReturned("generate_bad_rsa_public_key", args, loc.e, loc.p, loc.q, loc.d)
BadOutcome(args, loc) ==
    IF loc.err # "none"
      THEN [GenRaised("generate_bad_rsa_public_key", args, loc.err)
              EXCEPT !.p = loc.p, !.q = loc.q, !.d = loc.d]
    ELSE IF ~loc.bound
      THEN GenRaised("generate_bad_rsa_public_key", args, "UnboundLocalError")
    ELSE GenReturned("generate_bad_rsa_public_key", args, loc.e, loc.p, loc.q, loc.d)

\* Lines 76-104.
GenerateBadRsaPublicKey(weak_primes, weak_decryption_key, weak_modulus, number_of_bits) ==
    /\ Idle
    /\ LET args == BadArgs(weak_primes, weak_decryption_key, weak_modulus, number_of_bits)
       IN  IF number_of_bits < 2
             THEN gen' = GenRaised("generate_bad_rsa_public_key", args, "ValueError")
             ELSE \E l1 \in AfterWeakPrimes(weak_primes, number_of_bits) :
                  \E l2 \in AfterWeakDecryptionKey(weak_decryption_key, number_of_bits, l1) :
                  \E l3 \in AfterWeakModulus(weak_modulus, number_of_bits, l2) :
                    gen' = BadOutcome(args, l3)
    /\ pc' = "done" /\ fn' = "generate_bad_rsa_public_key"
    /\ UNCHANGED <<n, e, a, b_squared, i, d, x, y, g, convergents, result, interrupted>>
    /\ UNCHANGED libraryVars

(***************************************************************************)
(* Bounds of the polynomial operations.                                    *)
(***************************************************************************)
\* Coefficients are integers of -MaxCoeff..MaxCoeff.
MaxCoeff == 1
\* The dividend has at most MaxDividendLen coefficients, the divisor at most
\* MaxDivisorLen; Horner's method is given at most MaxDividendLen.
MaxDividendLen == 3
MaxDivisorLen == 2
\* Horner's method is evaluated at the integers of -MaxInput..MaxInput.
MaxInput == 2
\* The memory at hand holds a quotient of at most MaxQuotientTerms terms.
MaxQuotientTerms == 3

\* The lists of at most len elements of S.
ListsOf(S, len) == UNION {[1 .. m -> S] : m \in 0 .. len}

Coefficients == -MaxCoeff .. MaxCoeff

(***************************************************************************)
(* Python's numbers.  A quotient of two ints is a float; it is written     *)
(* here as the fraction <<numerator, denominator>> in lowest terms that it *)
(* stands for, which is exact as long as the denominators are powers of 2. *)
(***************************************************************************)
Fraction(nu, de) ==
    LET c == greatest_common_divisor(absolute_value(nu), absolute_value(de))
        sign == IF de < 0 THEN -1 ELSE 1
    IN  <<(sign * nu) \div c, (sign * de) \div c>>

OfInt(v) == <<v, 1>>

\* u / v for a number u and an int v # 0.
TrueDivide(u, v) == Fraction(u[1], u[2] * v)

\* u - w * v for numbers u, w and an int v.
SubtractProduct(u, w, v) ==
    Fraction(u[1] * w[2] - w[1] * v * u[2], u[2] * w[2])

(***************************************************************************)
(* horners_polynomial_evaluation                                           *)
(***************************************************************************)
\* A local variable of a function: unbound until it is assigned.
Unbound == [bound |-> FALSE, val |-> 0]
Bound(v) == [bound |-> TRUE, val |-> v]

\* Lines 19-25: the arguments pass the type checks (a list of ints, an int);
\* no statement before the loop assigns result.
HornerCall(coeffs, xv) ==
    /\ Idle
    /\ fn' = "horners_polynomial_evaluation"
    /\ pc' = "horner_loop"
    /\ polynomial_coefficients' = coeffs /\ input_value' = xv
    /\ horner_result' = Unbound
    /\ position' = 1
    /\ outcome' = "pending"
    /\ UNCHANGED <<dividend, divisor, quotient, remainder>>
    /\ UNCHANGED <<engineVars, cipherVars>>

\* Line 26: result = result * input_value + coefficient reads result first.
HornerLoop ==
    /\ pc = "horner_loop"
    /\ position <= Len(polynomial_coefficients)
    /\ IF ~horner_result.bound
         THEN /\ pc' = "done" /\ outcome' = "UnboundLocalError"
              /\ UNCHANGED <<horner_result, position>>
         ELSE /\ horner_result' =
                    Bound(horner_result.val * input_value
                          + polynomial_coefficients[position])
              /\ position' = position + 1
              /\ UNCHANGED <<pc, outcome>>
    /\ UNCHANGED <<fn, polynomial_coefficients, input_value>>
    /\ UNCHANGED <<dividend, divisor, quotient, remainder>>
    /\ UNCHANGED <<engineVars, cipherVars>>

\* Line 29: return result, after the last coefficient.
HornerReturn ==
    /\ pc = "horner_loop"
    /\ position > Len(polynomial_coefficients)
    /\ pc' = "done"
    /\ outcome' = IF horner_result.bound THEN "returned" ELSE "UnboundLocalError"
    /\ UNCHANGED <<fn, polynomial_coefficients, input_value, horner_result, position>>
    /\ UNCHANGED <<dividend, divisor, quotient, remainder>>
    /\ UNCHANGED <<engineVars, cipherVars>>

(***************************************************************************)
(* polynomial_long_division                                                *)
(***************************************************************************)
\* Lines 80-89: both arguments are lists of ints.
DivisionCall(dd, dv) ==
    /\ Idle
    /\ fn' = "polynomial_long_division"
    /\ pc' = "division_loop"
    /\ dividend' = dd /\ divisor' = dv
    /\ quotient' = <<>>
    /\ remainder' = [j \in 1 .. Len(dd) |-> OfInt(dd[j])]
    /\ outcome' = "pending"
    /\ UNCHANGED <<polynomial_coefficients, input_value, horner_result, position>>
    /\ UNCHANGED <<engineVars, cipherVars>>

\* Line 101: the first len(divisor) entries are recomputed, the others kept.
NextRemainder(rem, dv, qc) ==
    [j \in 1 .. Len(rem) |->
        IF j <= Len(dv) THEN SubtractProduct(rem[j], qc, dv[j]) ELSE rem[j]]

\* Lines 90-101: one iteration of the while loop.
DivisionLoop ==
    /\ pc = "division_loop"
    /\ Len(remainder) >= Len(divisor)
    /\ Len(quotient) < MaxQuotientTerms
    /\ IF Len(remainder) = 0 \/ Len(divisor) = 0
         THEN /\ pc' = "done" /\ outcome' = "IndexError"
              /\ UNCHANGED <<quotient, remainder>>
       ELSE IF divisor[1] = 0
         THEN /\ pc' = "done" /\ outcome' = "ZeroDivisionError"
              /\ UNCHANGED <<quotient, remainder>>
       ELSE LET quotient_degree == Len(remainder) - Len(divisor)
                quotient_coefficient == TrueDivide(remainder[1], divisor[1])
            IN  /\ quotient' = Append(quotient,
                                      <<quotient_coefficient, quotient_degree>>)
                /\ remainder' = NextRemainder(remainder, divisor,
                                              quotient_coefficient)
                /\ UNCHANGED <<pc, outcome>>
    /\ UNCHANGED <<fn, dividend, divisor>>
    /\ UNCHANGED <<polynomial_coefficients, input_value, horner_result, position>>
    /\ UNCHANGED <<engineVars, cipherVars>>

\* Line 104: the test of line 90 has failed.
DivisionReturn ==
    /\ pc = "division_loop"
    /\ Len(remainder) < Len(divisor)
    /\ pc' = "done" /\ outcome' = "returned"
    /\ UNCHANGED <<fn, dividend, divisor, quotient, remainder>>
    /\ UNCHANGED <<polynomial_coefficients, input_value, horner_result, position>>
    /\ UNCHANGED <<engineVars, cipherVars>>

\* Line 98: quotient.append finds no memory for one more term.
DivisionOutOfMemory ==
    /\ pc = "division_loop"
    /\ Len(remainder) >= Len(divisor)
    /\ Len(quotient) >= MaxQuotientTerms
    /\ pc' = "done" /\ outcome' = "MemoryError"
    /\ UNCHANGED <<fn, dividend, divisor, quotient, remainder>>
    /\ UNCHANGED <<polynomial_coefficients, input_value, horner_result, position>>
    /\ UNCHANGED <<engineVars, cipherVars>>

(***************************************************************************)
(* Python's strings, as sequences of characters.                           *)
(***************************************************************************)
\* The 26 capital letters, and the small letters in the same order.
Capitals ==
    <<"A", "B", "C", "D", "E", "F", "G", "H", "I", "J", "K", "L", "M",
      "N", "O", "P", "Q", "R", "S", "T", "U", "V", "W", "X", "Y", "Z">>
Smalls ==
    <<"a", "b", "c", "d", "e", "f", "g", "h", "i", "j", "k", "l", "m",
      "n", "o", "p", "q", "r", "s", "t", "u", "v", "w", "x", "y", "z">>

\* Two characters beyond ASCII, named by their code points: the small
\* ligature st (U+FB06), and the long s (U+017F).
LigatureSt == "U+FB06"
LongS == "U+017F"

\* str.upper() of a one-character string: a small letter gives its capital,
\* the long s gives "S", the ligature gives the two characters "ST"; any
\* other character of the model is unchanged.
upper(c) ==
    IF \E k \in 1 .. 26 : Smalls[k] = c
      THEN <<Capitals[CHOOSE k \in 1 .. 26 : Smalls[k] = c]>>
    ELSE IF c = LongS THEN <<"S">>
    ELSE IF c = LigatureSt THEN <<"S", "T">>
    ELSE <<c>>

\* needle in hay: hay has needle as a substring, at the 0-based offset off.
OccursAt(needle, hay, off) ==
    /\ off + Len(needle) <= Len(hay)
    /\ \A j \in 1 .. Len(needle) : hay[off + j] = needle[j]

In(needle, hay) == \E off \in 0 .. Len(hay) : OccursAt(needle, hay, off)

\* hay.index(needle): the least offset of needle in hay.
index(hay, needle) ==
    CHOOSE off \in 0 .. Len(hay) :
        /\ OccursAt(needle, hay, off)
        /\ \A o \in 0 .. off - 1 : ~OccursAt(needle, hay, o)

RECURSIVE join(_)
\* "".join(list)
join(list) == IF list = <<>> THEN <<>> ELSE Head(list) \o join(Tail(list))

(***************************************************************************)
(* Bounds of the ciphers.                                                  *)
(***************************************************************************)
\* CaesarCipher.set_key is called with the integers of -MaxShift..MaxShift.
MaxShift == 27
\* CaesarCipher.encrypt is called with strings of at most MaxCaesarLen
\* characters of CaesarChars.
MaxCaesarLen == 2
CaesarChars == {"A", "Z", "a", "m", "!", LongS, LigatureSt}
\* RailFenceCipher.set_key is called with the integers of 0..MaxRailKey and
\* encrypt with strings of at most MaxRailLen characters of RailChars.
MaxRailKey == 3
MaxRailLen == 5
RailChars == {"A", "b"}

(***************************************************************************)
(* CaesarCipher                                                            *)
(***************************************************************************)
\* Line 134
alphabet == Capitals
\* Line 135
CaesarDefaultKey == 3

\* Lines 178-181: one character of encrypt.
CaesarEncryptChar(char, k) ==
    IF In(upper(char), alphabet)
      THEN alphabet[((index(alphabet, upper(char)) + k) % 26) + 1]
      ELSE char

\* Lines 209-212: one character of decrypt.
CaesarDecryptChar(char, k) ==
    IF In(upper(char), alphabet)
      THEN alphabet[((index(alphabet, upper(char)) - k) % 26) + 1]
      ELSE char

\* Line 144
CaesarSetKey(k) ==
    /\ Idle
    /\ key' = [key EXCEPT !.CaesarCipher = k]
    /\ UNCHANGED <<pc, fn, key_argument, plaintext, ciphertext, decrypted>>
    /\ UNCHANGED <<rows, row_index, direction, position, outcome>>
    /\ UNCHANGED <<engineVars, polyVars>>

\* Lines 167-184
CaesarEncrypt(s) ==
    /\ Idle
    /\ fn' = "CaesarCipher.encrypt"
    /\ plaintext' = s
    /\ IF Len(s) = 0
         THEN /\ pc' = "done" /\ outcome' = "ValueError"
              /\ ciphertext' = <<>>
         ELSE /\ pc' = "encrypted" /\ outcome' = "returned"
              /\ ciphertext' =
                    [j \in 1 .. Len(s) |-> CaesarEncryptChar(s[j], key.CaesarCipher)]
    /\ decrypted' = <<>>
    /\ UNCHANGED <<key, key_argument, rows, row_index, direction, position>>
    /\ UNCHANGED <<engineVars, polyVars>>

\* Lines 198-215, called with the string encrypt has returned.
CaesarDecrypt ==
    /\ pc = "encrypted"
    /\ fn' = "CaesarCipher.decrypt"
    /\ pc' = "done"
    /\ IF Len(ciphertext) = 0
         THEN /\ outcome' = "ValueError" /\ decrypted' = <<>>
         ELSE /\ outcome' = "returned"
              /\ decrypted' =
                    [j \in 1 .. Len(ciphertext) |->
                        CaesarDecryptChar(ciphertext[j], key.CaesarCipher)]
    /\ UNCHANGED <<key, key_argument, plaintext, ciphertext>>
    /\ UNCHANGED <<rows, row_index, direction, position>>
    /\ UNCHANGED <<engineVars, polyVars>>

(***************************************************************************)
(* SimpleSubstitutionCipher                                                *)
(***************************************************************************)
\* Line 404: the default key, the alphabet rotated by three places.
SubstitutionDefaultKey == [k \in 1 .. 26 |-> Capitals[((k + 22) % 26) + 1]]

\* Lines 403-404: the attributes __init__ gives the object.  The class
\* defines no attribute outside its methods.
SubstitutionAttributes == {"plaintext_alphabet", "key"}

\* sorted(u) = sorted(v): every character occurs as often in u as in v.
SameSorted(u, v) ==
    /\ Len(u) = Len(v)
    /\ \A c \in {u[j] : j \in 1 .. Len(u)} \cup {v[j] : j \in 1 .. Len(v)} :
          Cardinality({j \in 1 .. Len(u) : u[j] = c})
              = Cardinality({j \in 1 .. Len(v) : v[j] = c})

\* The strings set_key is called with: the alphabet, the alphabet reversed,
\* the alphabet with its first letter replaced by "B", "ABC" and "".
SubstitutionKeys ==
    {Capitals,
     [k \in 1 .. 26 |-> Capitals[27 - k]],
     [Capitals EXCEPT ![1] = "B"],
     <<"A", "B", "C">>,
     <<>>}

\* Lines 424-430.  self.alphabet is read at line 427, when the key is a
\* non-empty string.
SubstitutionSetKey(k) ==
    /\ Idle
    /\ fn' = "SimpleSubstitutionCipher.set_key"
    /\ pc' = "done"
    /\ key_argument' = k
    /\ IF Len(k) = 0
         THEN outcome' = "ValueError" /\ key' = key
       ELSE IF "alphabet" \notin SubstitutionAttributes
         THEN outcome' = "AttributeError" /\ key' = key
       ELSE IF ~SameSorted(k, alphabet)
         THEN outcome' = "ValueError" /\ key' = key
       ELSE outcome' = "returned"
            /\ key' = [key EXCEPT !.SimpleSubstitutionCipher = k]
    /\ UNCHANGED <<plaintext, ciphertext, decrypted, rows, row_index, direction, position>>
    /\ UNCHANGED <<engineVars, polyVars>>

\* Line 410: random.sample(self.alphabet, len(self.alphabet)), joined.
SubstitutionSetRandomKey ==
    /\ Idle
    /\ fn' = "SimpleSubstitutionCipher.set_random_key"
    /\ pc' = "done"
    /\ IF "alphabet" \notin SubstitutionAttributes
         THEN outcome' = "AttributeError" /\ key' = key
         ELSE /\ outcome' = "returned"
              /\ \E k \in SubstitutionKeys :
                    /\ SameSorted(k, alphabet)
                    /\ key' = [key EXCEPT !.SimpleSubstitutionCipher = k]
    /\ UNCHANGED <<key_argument, plaintext, ciphertext, decrypted>>
    /\ UNCHANGED <<rows, row_index, direction, position>>
    /\ UNCHANGED <<engineVars, polyVars>>

(***************************************************************************)
(* RailFenceCipher                                                         *)
(***************************************************************************)
\* Line 677
RailDefaultKey == 3

\* list[k] for a Python list of length len: the 0-based place read or
\* written, a negative k counting from the end; -1 when k is out of range
\* (IndexError).
ListPlace(k, len) ==
    IF 0 <= k /\ k < len THEN k
    ELSE IF -len <= k /\ k < 0 THEN k + len
    ELSE -1

\* Line 686
RailSetKey(k) ==
    /\ Idle
    /\ key' = [key EXCEPT !.RailFenceCipher = k]
    /\ UNCHANGED <<pc, fn, key_argument, plaintext, ciphertext, decrypted>>
    /\ UNCHANGED <<rows, row_index, direction, position, outcome>>
    /\ UNCHANGED <<engineVars, polyVars>>

\* Lines 712-722
RailEncryptCall(s) ==
    /\ Idle
    /\ fn' = "RailFenceCipher.encrypt"
    /\ plaintext' = s
    /\ ciphertext' = <<>> /\ decrypted' = <<>>
    /\ IF Len(s) = 0
         THEN /\ pc' = "done" /\ outcome' = "ValueError"
              /\ UNCHANGED <<rows, row_index, direction, position>>
         ELSE /\ pc' = "rail_loop" /\ outcome' = "pending"
              /\ rows' = [r \in 1 .. key.RailFenceCipher |-> <<>>]
              /\ row_index' = 0
              /\ direction' = 1
              /\ position' = 1
    /\ UNCHANGED <<key, key_argument>>
    /\ UNCHANGED <<engineVars, polyVars>>

\* Lines 725-734: the loop body for one character.
RailLoop ==
    /\ pc = "rail_loop"
    /\ position <= Len(plaintext)
    /\ LET place == ListPlace(row_index, Len(rows))
           turned == IF row_index = 0 \/ row_index = key.RailFenceCipher - 1
                       THEN direction * (-1) ELSE direction
       IN  IF place = -1
             THEN /\ pc' = "done" /\ outcome' = "IndexError"
                  /\ UNCHANGED <<rows, row_index, direction, position>>
             ELSE /\ rows' = [rows EXCEPT ![place + 1] =
                                  Append(@, plaintext[position])]
                  /\ direction' = turned
                  /\ row_index' = row_index + turned
                  /\ position' = position + 1
                  /\ UNCHANGED <<pc, outcome>>
    /\ UNCHANGED <<fn, key, key_argument, plaintext, ciphertext, decrypted>>
    /\ UNCHANGED <<engineVars, polyVars>>

\* Line 737
RailReturn ==
    /\ pc = "rail_loop"
    /\ position > Len(plaintext)
    /\ pc' = "done" /\ outcome' = "returned"
    /\ ciphertext' = join(rows)
    /\ UNCHANGED <<fn, key, key_argument, plaintext, decrypted>>
    /\ UNCHANGED <<rows, row_index, direction, position>>
    /\ UNCHANGED <<engineVars, polyVars>>

NoKey == GenRaised("none", RsaArgs(0, 0), "none")

\* The keys of the cipher objects after their construction.
DefaultKeys ==
    [CaesarCipher |-> CaesarDefaultKey,
     RailFenceCipher |-> RailDefaultKey,
     SimpleSubstitutionCipher |-> SubstitutionDefaultKey]

Init ==
    /\ pc = "idle" /\ fn = "none" /\ n = 0 /\ e = 0 /\ a = 0 /\ b_squared = 0
    /\ i = 0 /\ d = 0 /\ x = 0 /\ y = 0 /\ g = 0 /\ convergents = <<>>
    /\ result = NoResult /\ interrupted = FALSE
    /\ gen = NoKey
    /\ polynomial_coefficients = <<>> /\ input_value = 0
    /\ horner_result = Unbound
    /\ dividend = <<>> /\ divisor = <<>> /\ quotient = <<>> /\ remainder = <<>>
    /\ key = DefaultKeys /\ key_argument = <<>>
    /\ plaintext = <<>> /\ ciphertext = <<>> /\ decrypted = <<>>
    /\ rows = <<>> /\ row_index = 0 /\ direction = 0 /\ position = 0
    /\ outcome = "none"

\* The caller is done with the outcome of the call; nothing of it is kept
\* but the keys of the cipher objects.
Return ==
    /\ pc = "done"
    /\ pc' = "idle" /\ fn' = "none" /\ n' = 0 /\ e' = 0 /\ a' = 0 /\ b_squared' = 0
    /\ i' = 0 /\ d' = 0 /\ x' = 0 /\ y' = 0 /\ g' = 0 /\ convergents' = <<>>
    /\ result' = NoResult /\ interrupted' = FALSE
    /\ gen' = NoKey
    /\ polynomial_coefficients' = <<>> /\ input_value' = 0
    /\ horner_result' = Unbound
    /\ dividend' = <<>> /\ divisor' = <<>> /\ quotient' = <<>> /\ remainder' = <<>>
    /\ key_argument' = <<>>
    /\ plaintext' = <<>> /\ ciphertext' = <<>> /\ decrypted' = <<>>
    /\ rows' = <<>> /\ row_index' = 0 /\ direction' = 0 /\ position' = 0
    /\ outcome' = "none"
    /\ UNCHANGED key

\* The caller hands the key it was returned to the continued-fraction attack.
AttackKey ==
    /\ pc = "done"
    /\ fn = "generate_bad_rsa_public_key"
    /\ gen.outcome = "returned"
    /\ CfStart(gen.e, gen.N)

FermatInputs == (-MaxN .. MaxN) \cup {FermatExample}

NextFactor ==
    \/ \E v \in FermatInputs : FermatCall(v)
    \/ FermatLoop
    \/ FermatReturn
    \/ FermatInterrupted
    \/ \E v \in 2 .. MaxN : Pm1Call(v)
    \/ Pm1Loop
    \/ Pm1Exhausted
    \/ \E v \in 2 .. MaxRhoN : RhoCall(v)
    \/ RhoLoop
    \/ RhoExhausted
    \/ PollardInterrupted
    \/ \E ev \in 0 .. MaxCfE, v \in 1 .. MaxCfN : CfCall(ev, v)
    \/ CfLoop
    \/ CfExhausted
    \/ Return

SpecFactor == Init /\ [][NextFactor]_vars

\* Fermat's method alone, never interrupted.  A call that has been started
\* goes on with its next statement: the loop body while the test of line 54
\* holds, the return of line 62 once it fails.
NextFermat ==
    \/ \E v \in FermatInputs : FermatCall(v)
    \/ FermatLoop
    \/ FermatReturn
    \/ Return

SpecFermat ==
    Init /\ [][NextFermat]_vars /\ WF_vars(FermatLoop) /\ WF_vars(FermatReturn)

\* The key generators, called with every bit length and flag of the bounds.
Exponents == (0 .. MaxExponent) \cup {DefaultPublicExponent}

NextKey ==
    \/ \E b \in 0 .. MaxBits, pe \in Exponents : GenerateRsaPublicKey(b, pe)
    \/ \E wp \in BOOLEAN, wdk \in BOOLEAN, wm \in BOOLEAN, b \in 0 .. MaxBits :
          GenerateBadRsaPublicKey(wp, wdk, wm, b)
    \/ Return

SpecKey == Init /\ [][NextKey]_vars

\* The attack round trip: a key with a weak decryption exponent is generated
\* and handed to the continued-fraction attack.  The exponent of a returned
\* key is at least 1, so that the attack meets a convergent with a numerator
\* other than 0 before its convergents are used up.
NextWiener ==
    \/ GenerateBadRsaPublicKey(FALSE, TRUE, FALSE, WienerBits)
    \/ AttackKey
    \/ CfLoop
    \/ Return

SpecWiener == Init /\ [][NextWiener]_vars

\* The polynomial operations, called with every list and value of the bounds.
NextPoly ==
    \/ \E coeffs \in ListsOf(Coefficients, MaxDividendLen),
          xv \in -MaxInput .. MaxInput : HornerCall(coeffs, xv)
    \/ HornerLoop
    \/ HornerReturn
    \/ \E dd \in ListsOf(Coefficients, MaxDividendLen),
          dv \in ListsOf(Coefficients, MaxDivisorLen) : DivisionCall(dd, dv)
    \/ DivisionLoop
    \/ DivisionReturn
    \/ DivisionOutOfMemory
    \/ Return

SpecPoly == Init /\ [][NextPoly]_vars

\* The ciphers: keys are set and messages encrypted in any order.
NextCipher ==
    \/ \E k \in -MaxShift .. MaxShift : CaesarSetKey(k)
    \/ \E s \in ListsOf(CaesarChars, MaxCaesarLen) : CaesarEncrypt(s)
    \/ CaesarDecrypt
    \/ \E k \in SubstitutionKeys : SubstitutionSetKey(k)
    \/ SubstitutionSetRandomKey
    \/ \E k \in 0 .. MaxRailKey : RailSetKey(k)
    \/ \E s \in ListsOf(RailChars, MaxRailLen) : RailEncryptCall(s)
    \/ RailLoop
    \/ RailReturn
    \/ Return

SpecCipher == Init /\ [][NextCipher]_vars

(***************************************************************************)
(* Number theory the properties are stated with.                           *)
(***************************************************************************)
IsComposite(v) == v > 1 /\ ~IsPrime(v)

PrimeFactors(v) == {r \in 2 .. v : v % r = 0 /\ IsPrime(r)}

IsPrimePower(v) == Cardinality(PrimeFactors(v)) = 1

RECURSIVE CancelFactorial(_, _, _)
\* What is left of m after cancelling j, j+1, ..., k from it: 1 iff m | k!.
CancelFactorial(m, j, k) ==
    IF j > k \/ m = 1 THEN m
    ELSE CancelFactorial(m \div greatest_common_divisor(m, j), j + 1, k)

DividesFactorial(m, k) == CancelFactorial(m, 2, k) = 1

RECURSIVE OrderFrom(_, _, _)
OrderFrom(v, t, r) == IF v = 1 THEN t ELSE OrderFrom((2 * v) % r, t + 1, r)

\* The multiplicative order of 2 modulo an odd prime r.
OrderOfTwo(r) == OrderFrom(2 % r, 1, r)

\* The returned pair is [u, N/u] for a proper divisor u of the input.
ProperPair ==
    /\ result.kind = "pair"
    /\ 1 < result.val[1] /\ result.val[1] < n
    /\ n % result.val[1] = 0
    /\ result.val[2] = n \div result.val[1]

Finished(name) == pc = "done" /\ fn = name /\ ~interrupted

(***************************************************************************)
(* C1.  For every odd composite n = p*q with p and q prime, an             *)
(* uninterrupted fermat_factorization(n) returns two values that are p and *)
(* q in some order, and their product is n.                                *)
(***************************************************************************)
C1_FermatSemiprime ==
    (Finished("fermat_factorization") /\ n > 1 /\ n % 2 = 1) =>
        \A r \in 2 .. n :
            (n % r = 0 /\ IsPrime(r) /\ IsPrime(n \div r)) =>
                /\ result.kind = "pair"
                /\ {result.val[1], result.val[2]} = {r, n \div r}
                /\ result.val[1] * result.val[2] = n

\* The specification's example: 8051 = 83 * 97.
C1_Witness ==
    /\ Finished("fermat_factorization")
    /\ n = 8051
    /\ result = Pair(83, 97)

(***************************************************************************)
(* C2, as stated.  For every composite N with a prime factor p such that   *)
(* p-1 is smooth relative to the iteration bound (p-1 divides the          *)
(* factorial of the last exponent), pollard_p_minus_one_factorization(N)   *)
(* returns [d, N/d] with 1 < d < N and N % d = 0.                          *)
(***************************************************************************)
C2_SmoothFactorGivesDivisor ==
    (/\ Finished("pollard_p_minus_one_factorization")
     /\ IsComposite(n)
     /\ \E r \in PrimeFactors(n) : DividesFactorial(r - 1, UPPER_BOUND - 1))
        => ProperPair

\* At exponent k the odd prime factor r of N is caught (r-1 divides k!) while
\* the prime factor s is not (s is 2, or the order of 2 modulo s does not
\* divide k!).
CaughtApart(k, r, s) ==
    /\ r # 2
    /\ DividesFactorial(r - 1, k)
    /\ (s = 2 \/ ~DividesFactorial(OrderOfTwo(s), k))

(***************************************************************************)
(* C2, amended.  For every composite N with an odd prime factor p such     *)
(* that p-1 divides k! for an exponent k below the bound, and a prime      *)
(* factor q that exponent k does not catch (q = 2, or the order of 2       *)
(* modulo q does not divide k!), the call returns [d, N/d] with 1 < d < N  *)
(* and N % d = 0.                                                          *)
(***************************************************************************)
C2_SeparatedFactorGivesDivisor ==
    (/\ Finished("pollard_p_minus_one_factorization")
     /\ IsComposite(n)
     /\ \E k \in 2 .. UPPER_BOUND - 1 : \E r \in PrimeFactors(n) :
            \E s \in PrimeFactors(n) : CaughtApart(k, r, s))
        => ProperPair

\* 14 = 2 * 7: 7 is caught at exponent 3, 2 never is.
C2_Witness ==
    /\ Finished("pollard_p_minus_one_factorization")
    /\ n = 14
    /\ CaughtApart(3, 7, 2)
    /\ result = Pair(7, 2)

(***************************************************************************)
(* C3, as stated.  For every composite N that is not a prime power,        *)
(* pollard_rho_factorization(N) returns within the iteration bound a pair  *)
(* [g, N/g] with 1 < g < N and N % g = 0.                                  *)
(***************************************************************************)
C3_RhoSplitsComposite ==
    (/\ Finished("pollard_rho_factorization")
     /\ IsComposite(n)
     /\ ~IsPrimePower(n))
        => ProperPair

\* The walk of the claim: t -> (t^2 + 1) mod N.
Walk(t, v) == (t * t + 1) % v

RECURSIVE WalkTimes(_, _, _)
\* The walk applied k times to t.
WalkTimes(t, k, v) ==
    IF k = 0 THEN t
    ELSE IF k = 1 THEN Walk(t, v)
    ELSE LET half == WalkTimes(t, k \div 2, v)
         IN  IF half < v THEN WalkTimes(half, k - k \div 2, v) ELSE half

\* In some round k within the bound, x (the walk applied k times to 1) and y
\* (the walk applied 2k times to 2) agree modulo a prime factor of v and
\* differ modulo v.
MeetsApart(v) ==
    \E k \in 1 .. MAX_ITERATIONS :
        LET diff == WalkTimes(2, 2 * k, v) - WalkTimes(1, k, v)
        IN  /\ diff % v # 0
            /\ \E r \in PrimeFactors(v) : diff % r = 0

(***************************************************************************)
(* C3, amended.  For every composite N that is not a prime power and for   *)
(* which, in some round within the iteration bound, the walks started at   *)
(* x = 1 and y = 2 with t -> (t^2 + 1) mod N agree modulo a prime factor   *)
(* of N without agreeing modulo N, pollard_rho_factorization(N) returns a  *)
(* pair [g, N/g] with 1 < g < N and N % g = 0.                             *)
(***************************************************************************)
C3_RhoSplitsWhenWalksMeetApart ==
    (/\ Finished("pollard_rho_factorization")
     /\ IsComposite(n)
     /\ ~IsPrimePower(n)
     /\ MeetsApart(n))
        => ProperPair

\* 91 = 7 * 13 is split in the second round.
C3_Witness ==
    /\ Finished("pollard_rho_factorization")
    /\ n = 91
    /\ MeetsApart(91)
    /\ i = 2
    /\ result = Pair(7, 13)

(***************************************************************************)
(* C4.  For every key (e, N) returned by generate_bad_rsa_public_key with  *)
(* only weak_decryption_key set, continued_fraction_factorization(e, N)    *)
(* returns [p, q] with p*q = N, and the inverse d' of e modulo (p-1)*(q-1) *)
(* satisfies (m^e mod N)^d' mod N = m for every m < N.                     *)
(***************************************************************************)
OnlyWeakDecryptionKey ==
    /\ gen.fn = "generate_bad_rsa_public_key"
    /\ gen.args.weak_decryption_key
    /\ ~gen.args.weak_primes
    /\ ~gen.args.weak_modulus

C4_WienerRoundTrip ==
    (/\ Finished("continued_fraction_factorization")
     /\ OnlyWeakDecryptionKey /\ gen.outcome = "returned"
     /\ e = gen.e /\ n = gen.N)
        => /\ result.kind = "pair"
           /\ result.val[1] * result.val[2] = n
           /\ LET inv == find_modular_inverse(
                             e, (result.val[1] - 1) * (result.val[2] - 1))
              IN  /\ inv.ok
                  /\ \A m \in 0 .. n - 1 :
                        fast_powering_algorithm(
                            fast_powering_algorithm(m, e, n), inv.val, n) = m

(***************************************************************************)
(* C5.  Every key returned by generate_rsa_public_key(number_of_bits,      *)
(* public_exponent) is [public_exponent, p*q] for primes p # q of          *)
(* [2^(number_of_bits-1), 2^number_of_bits), with                          *)
(* gcd(public_exponent, (p-1)*(q-1)) = 1.                                  *)
(***************************************************************************)
InBitRange(v, number_of_bits) ==
    2 ^ (number_of_bits - 1) <= v /\ v < 2 ^ number_of_bits

C5_GeneratedKeyInvariant ==
    (gen.fn = "generate_rsa_public_key" /\ gen.outcome = "returned") =>
        /\ gen.e = gen.args.public_exponent
        /\ gen.N = gen.p * gen.q
        /\ IsPrime(gen.p) /\ IsPrime(gen.q) /\ gen.p # gen.q
        /\ InBitRange(gen.p, gen.args.number_of_bits)
        /\ InBitRange(gen.q, gen.args.number_of_bits)
        /\ greatest_common_divisor(gen.e, (gen.p - 1) * (gen.q - 1)) = 1

(***************************************************************************)
(* C6.  When generate_bad_rsa_public_key is called with more than one      *)
(* flag set, every requested weakness is present in the returned key:      *)
(* with weak_primes, p is a prime of the bit range and q a prime of        *)
(* [p, p + 10^9); with weak_decryption_key, e is the inverse of a small d  *)
(* modulo (p-1)*(q-1) of the returned modulus; with weak_modulus, p and q  *)
(* are drawn from 2 up to 2^number_of_bits.                                *)
(***************************************************************************)
FlagsSet ==
    (IF gen.args.weak_primes THEN 1 ELSE 0)
    + (IF gen.args.weak_decryption_key THEN 1 ELSE 0)
    + (IF gen.args.weak_modulus THEN 1 ELSE 0)

\* floor(N^0.25 / 4)
SmallExponentLimit(v) == integer_sqrt(integer_sqrt(v)) \div 4

HasSmallInverse(ev, pv, qv) ==
    \E dd \in 2 .. SmallExponentLimit(pv * qv) :
        (ev * dd) % ((pv - 1) * (qv - 1)) = 1 % ((pv - 1) * (qv - 1))

C6_FlagsCombine ==
    (/\ gen.fn = "generate_bad_rsa_public_key"
     /\ gen.outcome = "returned"
     /\ FlagsSet > 1)
        => /\ gen.args.weak_primes =>
                /\ IsPrime(gen.p) /\ InBitRange(gen.p, gen.args.number_of_bits)
                /\ IsPrime(gen.q) /\ gen.p <= gen.q /\ gen.q < gen.p + BandWidth
           /\ gen.args.weak_decryption_key => HasSmallInverse(gen.e, gen.p, gen.q)
           /\ gen.args.weak_modulus =>
                /\ 2 <= gen.p /\ gen.p <= 2 ^ gen.args.number_of_bits
                /\ 2 <= gen.q /\ gen.q <= 2 ^ gen.args.number_of_bits

(***************************************************************************)
(* C7.  For every number_of_bits >= 2, generate_bad_rsa_public_key with    *)
(* only weak_decryption_key set does not fail: it returns [e, N] with      *)
(* N = p*q for two distinct primes of [2^(bits-1), 2^bits), and            *)
(* e*d = 1 mod (p-1)*(q-1) for some d with 2 <= d <= floor(N^0.25 / 4).    *)
(***************************************************************************)
C7_WeakDecryptionKeyReturned ==
    (/\ pc = "done"
     /\ OnlyWeakDecryptionKey
     /\ gen.args.number_of_bits >= 2)
        => /\ gen.outcome = "returned"
           /\ gen.N = gen.p * gen.q
           /\ IsPrime(gen.p) /\ IsPrime(gen.q) /\ gen.p # gen.q
           /\ InBitRange(gen.p, gen.args.number_of_bits)
           /\ InBitRange(gen.q, gen.args.number_of_bits)
           /\ HasSmallInverse(gen.e, gen.p, gen.q)

(***************************************************************************)
(* C8.  A call of Fermat's, Pollard's p-1 or Pollard's rho search that is  *)
(* cancelled during its search ends with an outcome that is neither a      *)
(* factor pair nor the 'no factor found' value None.                       *)
(***************************************************************************)
C8_CancelledIsDistinct ==
    (pc = "done" /\ interrupted) => result.kind \notin {"pair", "None"}

(***************************************************************************)
(* C9.  Every result returned by one of the four factorization engines is  *)
(* None or a pair [u, v] with u*v equal to the input and u > 1, v > 1.     *)
(***************************************************************************)
Engines ==
    {"fermat_factorization", "pollard_p_minus_one_factorization",
     "pollard_rho_factorization", "continued_fraction_factorization"}

C9_NoTrivialPair ==
    (pc = "done" /\ fn \in Engines /\ result.kind \in {"pair", "None"}) =>
        \/ result = None
        \/ /\ result.val[1] * result.val[2] = n
           /\ result.val[1] > 1
           /\ result.val[2] > 1

(***************************************************************************)
(* C10.  fermat_factorization(n) raises ValueError for every n <= 1 and    *)
(* every even n, before any step of the search: neither a nor b_squared is *)
(* assigned and the loop is never entered.                                 *)
(***************************************************************************)
C10_FermatRejects ==
    (fn = "fermat_factorization" /\ (n <= 1 \/ n % 2 = 0)) =>
        /\ pc = "done"
        /\ result = Raised("ValueError")
        /\ a = 0 /\ b_squared = 0

\* The even input 4, a perfect square, is rejected before the square test.
C10_Witness ==
    /\ pc = "done"
    /\ fn = "fermat_factorization"
    /\ n = 4
    /\ result = Raised("ValueError")

(***************************************************************************)
(* C11.  When the iteration bound is exhausted without a proper divisor    *)
(* (as for every prime N), pollard_p_minus_one_factorization(N) and        *)
(* pollard_rho_factorization(N) return None, for every N >= 2; a call that *)
(* is not interrupted never ends with an exception.                        *)
(***************************************************************************)
Pollards ==
    {"pollard_p_minus_one_factorization", "pollard_rho_factorization"}

C11_ExhaustionReturnsNone ==
    (pc = "done" /\ fn \in Pollards /\ ~interrupted /\ n >= 2) =>
        /\ result.kind \in {"pair", "None"}
        /\ result.kind = "pair" => ProperPair
        /\ IsPrime(n) => result = None
        /\ (fn = "pollard_p_minus_one_factorization" /\ i >= UPPER_BOUND)
              => result = None
        /\ (fn = "pollard_rho_factorization" /\ i >= MAX_ITERATIONS
              /\ ~(1 < g /\ g < n)) => result = None

\* The rounds of Pollard's rho are used up on the prime 7.
C11_Witness ==
    /\ Finished("pollard_rho_factorization")
    /\ n = 7
    /\ i = MAX_ITERATIONS
    /\ result = None

(***************************************************************************)
(* C12.  continued_fraction_factorization(e, N) walks the convergents of   *)
(* e/N in order, skips those with numerator 0, and returns the roots of    *)
(* the first convergent whose quadratic                                    *)
(* x^2 - (floor((e*denominator - 1)/numerator) - N - 1)x + N = 0 has       *)
(* integer roots with product N; when no convergent qualifies it returns   *)
(* None and does not raise.                                                *)
(***************************************************************************)
\* floor((e*denominator - 1)/numerator) - N - 1 for the k-th convergent.
CandidateCoefficient(k) ==
    ((e * convergents[k][2] - 1) \div convergents[k][1]) - n - 1

\* u and v are the integer roots of x^2 - c*x + N: their sum is c and their
\* product N.
IntegerRoots(u, v, c) == u + v = c /\ u * v = n

Qualifies(k) ==
    /\ convergents[k][1] # 0
    /\ \E u \in (-n .. n) \ {0} :
          /\ n % u = 0
          /\ IntegerRoots(u, n \div u, CandidateCoefficient(k))

C12_FirstQualifyingConvergent ==
    Finished("continued_fraction_factorization") =>
        \/ /\ result = None
           /\ \A k \in 1 .. Len(convergents) : ~Qualifies(k)
        \/ /\ result.kind = "pair"
           /\ \E k \in 1 .. Len(convergents) :
                 /\ Qualifies(k)
                 /\ \A j \in 1 .. k - 1 : ~Qualifies(j)
                 /\ IntegerRoots(result.val[1], result.val[2],
                                 CandidateCoefficient(k))

(***************************************************************************)
(* C13.  With only weak_primes set, generate_bad_rsa_public_key returns    *)
(* [65537, p*q] where p is a prime of [2^(bits-1), 2^bits), q is a prime   *)
(* of the band [p, p + 10^9), and p and q are distinct: the modulus is     *)
(* never p^2.                                                              *)
(***************************************************************************)
OnlyWeakPrimes ==
    /\ gen.fn = "generate_bad_rsa_public_key"
    /\ gen.args.weak_primes
    /\ ~gen.args.weak_decryption_key
    /\ ~gen.args.weak_modulus

C13_WeakPrimesDistinct ==
    (OnlyWeakPrimes /\ gen.outcome = "returned") =>
        /\ gen.e = 65537
        /\ gen.N = gen.p * gen.q
        /\ IsPrime(gen.p) /\ InBitRange(gen.p, gen.args.number_of_bits)
        /\ IsPrime(gen.q)
        /\ gen.p <= gen.q /\ gen.q < gen.p + 1000000000
        /\ gen.p # gen.q
        /\ gen.N # gen.p * gen.p

(***************************************************************************)
(* C14.  With weak_modulus set, generate_bad_rsa_public_key returns a      *)
(* modulus that is the product of two integers of the half-open range      *)
(* [2, 2^number_of_bits): neither factor equals 2^number_of_bits.          *)
(***************************************************************************)
C14_WeakModulusHalfOpen ==
    (/\ gen.fn = "generate_bad_rsa_public_key"
     /\ gen.args.weak_modulus
     /\ gen.outcome = "returned")
        => /\ gen.N = gen.p * gen.q
           /\ 2 <= gen.p /\ gen.p < 2 ^ gen.args.number_of_bits
           /\ 2 <= gen.q /\ gen.q < 2 ^ gen.args.number_of_bits

(***************************************************************************)
(* C20.  For every odd n > 1: if n is a perfect square,                    *)
(* fermat_factorization(n) returns [sqrt(n), sqrt(n)] without entering the *)
(* search loop; otherwise the search starts at a = ceil(sqrt(n)) and the   *)
(* result is [a - b, a + b] for the least a >= ceil(sqrt(n)) such that     *)
(* a^2 - n is a perfect square b^2.                                        *)
(***************************************************************************)
PerfectSquare(v) == v >= 0 /\ \E k \in 0 .. v : k * k = v

\* The least k with k*k >= v, for v >= 1.
CeilSqrt(v) == CHOOSE k \in 1 .. v : k * k >= v /\ (k - 1) * (k - 1) < v

\* The least a from ceil(sqrt(v)) on with a^2 - v a perfect square; there is
\* one up to (v+1)/2 for every odd v.
LeastA(v) ==
    CHOOSE aa \in CeilSqrt(v) .. (v + 1) \div 2 :
        /\ PerfectSquare(aa * aa - v)
        /\ \A s \in CeilSqrt(v) .. aa - 1 : ~PerfectSquare(s * s - v)

C20_FermatLeastA ==
    /\ (Finished("fermat_factorization") /\ n > 1 /\ n % 2 = 1) =>
          IF PerfectSquare(n)
            THEN /\ result = Pair(CeilSqrt(n), CeilSqrt(n))
                 /\ a = 0 /\ b_squared = 0
            ELSE \E b \in 0 .. LeastA(n) :
                    /\ b * b = LeastA(n) * LeastA(n) - n
                    /\ result = Pair(LeastA(n) - b, LeastA(n) + b)
    /\ (pc = "fermat_loop" /\ fn = "fermat_factorization") =>
          /\ ~PerfectSquare(n)
          /\ CeilSqrt(n) <= a /\ a <= LeastA(n)
          /\ b_squared = a * a - n

\* 33: ceil(sqrt(33)) = 6 and 36 - 33 is no square; 49 - 33 = 16 is.
C20_Witness ==
    /\ Finished("fermat_factorization")
    /\ n = 33
    /\ a = 7 /\ a = LeastA(33) /\ CeilSqrt(33) = 6
    /\ result = Pair(3, 11)

(***************************************************************************)
(* C15.  For every list of integer dividend coefficients and every list of *)
(* integer divisor coefficients with a nonzero leading coefficient,        *)
(* polynomial_long_division terminates and returns a (quotient, remainder) *)
(* pair, the remainder having fewer coefficients than the divisor.         *)
(***************************************************************************)
C15_DivisionTerminates ==
    (/\ pc = "done"
     /\ fn = "polynomial_long_division"
     /\ Len(divisor) > 0 /\ divisor[1] # 0)
        => /\ outcome = "returned"
           /\ Len(remainder) < Len(divisor)

(***************************************************************************)
(* C16.  For every non-empty list of integer coefficients c_0..c_n         *)
(* (descending degree) and every integer x, horners_polynomial_evaluation  *)
(* returns the value c_0*x^n + c_1*x^(n-1) + ... + c_n.                    *)
(***************************************************************************)
RECURSIVE Power(_, _)
Power(v, k) == IF k = 0 THEN 1 ELSE v * Power(v, k - 1)

RECURSIVE SumOfTerms(_, _, _)
\* c[j]*v^(Len(c)-j) + ... + c[Len(c)]*v^0
SumOfTerms(c, j, v) ==
    IF j > Len(c) THEN 0
    ELSE c[j] * Power(v, Len(c) - j) + SumOfTerms(c, j + 1, v)

C16_HornerValue ==
    (/\ pc = "done"
     /\ fn = "horners_polynomial_evaluation"
     /\ Len(polynomial_coefficients) > 0)
        => /\ outcome = "returned"
           /\ horner_result = Bound(SumOfTerms(polynomial_coefficients, 1, input_value))

(***************************************************************************)
(* C17.  For every key >= 2 and every non-empty plaintext,                 *)
(* RailFenceCipher.encrypt completes without error: the row index stays    *)
(* within [0, key-1] at every step, following the zigzag                   *)
(* 0, 1, ..., key-1, key-2, ..., 0, ..., and the returned ciphertext is    *)
(* the rows read off in order, a rearrangement of the plaintext characters *)
(* of the same length.                                                     *)
(***************************************************************************)
\* The row of the t-th character (t from 0) on a fence of k >= 2 rows.
ZigZag(t, k) ==
    LET m == t % (2 * (k - 1))
    IN  IF m < k THEN m ELSE 2 * (k - 1) - m

RECURSIVE RowOf(_, _, _, _)
\* The characters of s, from place j on, that the zigzag puts on row r.
RowOf(s, j, r, k) ==
    IF j > Len(s) THEN <<>>
    ELSE (IF ZigZag(j - 1, k) = r THEN <<s[j]>> ELSE <<>>) \o RowOf(s, j + 1, r, k)

RECURSIVE RowsFrom(_, _, _)
\* Rows r, r+1, ..., k-1 read off in order.
RowsFrom(s, r, k) ==
    IF r >= k THEN <<>> ELSE RowOf(s, 1, r, k) \o RowsFrom(s, r + 1, k)

Occurrences(s, c) == Cardinality({j \in 1 .. Len(s) : s[j] = c})

C17_RailFenceZigZag ==
    (/\ fn = "RailFenceCipher.encrypt"
     /\ key.RailFenceCipher >= 2
     /\ Len(plaintext) > 0)
        => /\ outcome \in {"pending", "returned"}
           /\ pc = "rail_loop" =>
                 /\ 0 <= row_index /\ row_index <= key.RailFenceCipher - 1
                 /\ row_index = ZigZag(position - 1, key.RailFenceCipher)
           /\ pc = "done" =>
                 /\ ciphertext = RowsFrom(plaintext, 0, key.RailFenceCipher)
                 /\ Len(ciphertext) = Len(plaintext)
                 /\ \A c \in RailChars :
                       Occurrences(ciphertext, c) = Occurrences(plaintext, c)

(***************************************************************************)
(* C18.  For every integer key set by CaesarCipher.set_key and every       *)
(* non-empty string s, decrypt(encrypt(s)) equals s with its letters       *)
(* upper-cased; characters not in the alphabet A-Z are left unchanged by   *)
(* both encrypt and decrypt.                                               *)
(***************************************************************************)
RECURSIVE UpperCased(_)
\* s.upper()
UpperCased(s) == IF s = <<>> THEN <<>> ELSE upper(Head(s)) \o UpperCased(Tail(s))

\* c is a letter of A-Z, capital or small, or upper-cases to one.
IsLetter(c) == \E k \in 1 .. 26 : upper(c) = <<Capitals[k]>>

C18_CaesarRoundTrip ==
    (/\ pc = "done"
     /\ fn = "CaesarCipher.decrypt"
     /\ Len(plaintext) > 0)
        => /\ outcome = "returned"
           /\ decrypted = UpperCased(plaintext)
           /\ Len(ciphertext) = Len(plaintext)
           /\ \A j \in 1 .. Len(plaintext) :
                 ~IsLetter(plaintext[j]) =>
                     /\ ciphertext[j] = plaintext[j]
                     /\ Len(decrypted) = Len(plaintext)
                     /\ decrypted[j] = plaintext[j]

(***************************************************************************)
(* C19.  SimpleSubstitutionCipher.set_key(key) stores key when key is a    *)
(* permutation of the 26-letter alphabet, and otherwise raises ValueError  *)
(* and leaves the stored key unchanged; after any sequence of set_key and  *)
(* set_random_key calls the stored key is a permutation of the alphabet.   *)
(***************************************************************************)
IsPermutationOfAlphabet(k) ==
    /\ Len(k) = 26
    /\ \A j \in 1 .. 26 : \E m \in 1 .. 26 : k[m] = Capitals[j]

C19_SubstitutionKeyKept ==
    /\ IsPermutationOfAlphabet(key.SimpleSubstitutionCipher)
    /\ (pc = "done" /\ fn = "SimpleSubstitutionCipher.set_key") =>
          IF IsPermutationOfAlphabet(key_argument)
            THEN /\ outcome = "returned"
                 /\ key.SimpleSubstitutionCipher = key_argument
            ELSE outcome = "ValueError"

(***************************************************************************)
(* C21.  In pollard_rho_factorization, after k completed rounds x is the   *)
(* k-fold and y the 2k-fold application of f(t) = (t^2 + 1) mod N to the   *)
(* starts x = 1 and y = 2; after each round both lie in [0, N-1];          *)
(* g = gcd(|y - x|, N) is computed once per round; and the divisor         *)
(* returned is the one of the first round, within the iteration bound,     *)
(* whose gcd is strictly between 1 and N.                                  *)
(***************************************************************************)
\* The gcd of round k: of the walks applied k times to 1 and 2k times to 2.
RoundGcd(k, v) ==
    greatest_common_divisor(
        absolute_value(WalkTimes(2, 2 * k, v) - WalkTimes(1, k, v)), v)

StrictlyBetween(gg, v) == 1 < gg /\ gg < v

\* What holds of every state of a call; i is the number of completed rounds.
RhoRoundState ==
    fn = "pollard_rho_factorization" =>
        /\ 0 <= i /\ i <= MAX_ITERATIONS
        /\ i = 0 => x = 1 /\ y = 2
        /\ i >= 1 => /\ 0 <= x /\ x <= n - 1
                     /\ 0 <= y /\ y <= n - 1
        /\ g = greatest_common_divisor(absolute_value(y - x), n)
        \* the loop goes on only from rounds without a divisor, so that the
        \* round of a returned divisor is the first with one
        /\ pc = "rho_loop" => ~StrictlyBetween(g, n)
        /\ (pc = "done" /\ ~interrupted) =>
              /\ x = WalkTimes(1, i, n)
              /\ y = WalkTimes(2, 2 * i, n)
              /\ g = RoundGcd(i, n)
              /\ IF StrictlyBetween(g, n)
                   THEN i >= 1 /\ result = Pair(g, n \div g)
                   ELSE i = MAX_ITERATIONS /\ result = None

\* What holds of every round: one application to x, two to y.
RhoRoundStep ==
    (fn = "pollard_rho_factorization" /\ fn' = fn /\ i' # i) =>
        /\ i' = i + 1
        /\ x' = Walk(x, n)
        /\ y' = Walk(Walk(y, n), n)

C21_RhoRounds == []RhoRoundState /\ [][RhoRoundStep]_vars

\* 323 = 17 * 19: the rounds 1, 2 and 3 give the gcd 1, round 4 gives 19.
C21_Witness ==
    /\ Finished("pollard_rho_factorization")
    /\ n = 323
    /\ i = 4
    /\ \A k \in 1 .. 3 : RoundGcd(k, 323) = 1
    /\ RoundGcd(4, 323) = 19
    /\ result = Pair(19, 17)

(***************************************************************************)
(* C22.  fermat_factorization terminates for every odd n > 1 without any   *)
(* cancellation: the search variable a never exceeds (n+1)/2, where        *)
(* a^2 - n = ((n-1)/2)^2 is a perfect square, so that at most              *)
(* (n+1)/2 - ceil(sqrt(n)) increments occur; for prime n the call returns  *)
(* [1, n].                                                                 *)
(***************************************************************************)
FermatSearchBounded ==
    (fn = "fermat_factorization" /\ pc = "fermat_loop") =>
        /\ n > 1 /\ n % 2 = 1
        /\ CeilSqrt(n) <= a /\ a <= (n + 1) \div 2
        \* a - ceil(sqrt(n)) increments have occurred
        /\ a - CeilSqrt(n) <= (n + 1) \div 2 - CeilSqrt(n)
        /\ b_squared = a * a - n
        /\ a = (n + 1) \div 2 =>
              /\ b_squared = ((n - 1) \div 2) * ((n - 1) \div 2)
              /\ PerfectSquare(b_squared)

FermatPrimeResult ==
    (pc = "done" /\ fn = "fermat_factorization" /\ IsPrime(n) /\ n % 2 = 1) =>
        /\ result = Pair(1, n)
        /\ a = (n + 1) \div 2

C22_FermatTerminates ==
    /\ []FermatSearchBounded
    /\ []FermatPrimeResult
    /\ (fn = "fermat_factorization") ~> (pc = "done")

\* The prime 61: the search runs from a = 8 up to a = 31 = (61 + 1)/2.
C22_Witness ==
    /\ pc = "done"
    /\ fn = "fermat_factorization"
    /\ n = 61
    /\ CeilSqrt(61) = 8
    /\ a = 31
    /\ result = Pair(1, 61)

(***************************************************************************)
(* C23.  When generate_bad_rsa_public_key is called with a valid           *)
(* number_of_bits and all three flags false, it returns no key: after the  *)
(* input validation the call fails with an error, because neither prime    *)
(* was ever assigned, rather than returning a well-formed [65537, p*q].    *)
(***************************************************************************)
NoFlagSet ==
    /\ gen.fn = "generate_bad_rsa_public_key"
    /\ ~gen.args.weak_primes
    /\ ~gen.args.weak_decryption_key
    /\ ~gen.args.weak_modulus

====
